---- MODULE Spec2Model ----
(***************************************************************************)
(* Model of the lifeEscape simulation engine (src/src/game/GameEngine.js)  *)
(* and of the UI callbacks that drive it (src/src/index.jsx).              *)
(*                                                                         *)
(* Numbers.  Lengths are fixed-point: 1 unit = 1/100 pixel, so x = 50 px   *)
(* is 5000.  Velocities are units per tick.  The clock is in thirds of a   *)
(* millisecond, so that timeStep = 1000/60 ms is the integer 50;           *)
(* Date.now() is the clock divided by 3.  Products and quotients of the    *)
(* code are rounded to the nearest unit (RDiv).                            *)
(***************************************************************************)
EXTENDS Integers, Sequences, FiniteSets, TLC

\* ------------------------------------------------------------------ bounds
MaxFrames   == 4      \* render callbacks explored in one run
MaxEvents   == 2      \* outside events explored in one run: key and touch
                      \* events, collaborator commands, successful blindness rolls
MaxRestarts == 1      \* engines replaced by the UI in one run
MaxChaseTicks == 130  \* ticks of one pursuit explored
MaxOverlapTicks == 2  \* whole ticks explored around one overlap
SepTol      == 3      \* rounding allowance (1/100 px) of a centre distance
MaxSpeed    == 20000  \* obstacle speed (1/100 px per tick) beyond which a run
                      \* is not continued: repeated impulses grow it without limit

\* --------------------------------------------------------- program constants
Scale                    == 100
canvasWidth              == 800 * Scale
canvasHeight             == 600 * Scale
playerRadius             == 20 * Scale
playerSpeed              == 8 * Scale
spawnX                   == 50 * Scale
spawnY                   == canvasHeight \div 2
entranceProtectionRadius == 150 * Scale
entranceProtectionForce  == 80
minShapeSize             == playerRadius \div 2
initialSize              == 40 * Scale
timeStep                 == 50
stuckStep                == 16
stuckThreshold           == 2000
positionChangeThreshold  == 5 * Scale
nearEntranceX            == 100 * Scale
touchDeadzone            == 5 * Scale
cooldownTime             == 1000
displayTime              == 2000
fadeSpeed                == 5
pollInterval             == 300
trailCapacity            == 10
particleLife             == 100
particleDecay            == 2

entrance == [x |-> 0, y |-> canvasHeight \div 2 - 50 * Scale,
             width |-> 20 * Scale, height |-> 100 * Scale]
exit     == [x |-> canvasWidth - 20 * Scale, y |-> canvasHeight \div 2 - 50 * Scale,
             width |-> 20 * Scale, height |-> 100 * Scale]

shapeTypes == <<"triangle", "square", "rectangle", "ellipse", "star",
                "pentagon", "hexagon", "octagon", "diamond", "cross",
                "heart", "moon", "cloud", "lightning", "spiral">>

superPowerTypes == <<"star", "star_eliminator", "star_reducer">>

\* duration (ms) of each power kind; the keys are the power-bearing shapes
superPowers == [star |-> 5000, star_eliminator |-> 2000, star_reducer |-> 3000]

HasSuperPower(shape) == shape \in DOMAIN superPowers

\* ------------------------------------------------------------- arithmetic
Abs(a) == IF a < 0 THEN -a ELSE a
Max(a, b) == IF a >= b THEN a ELSE b
Min(a, b) == IF a <= b THEN a ELSE b

\* a / b rounded to the nearest integer, symmetric around 0 (b > 0)
RDiv(a, b) == IF a >= 0 THEN (a + b \div 2) \div b ELSE -((-a + b \div 2) \div b)

RECURSIVE SqrtSearch(_, _, _)
SqrtSearch(n, lo, hi) ==
    IF lo >= hi THEN lo
    ELSE LET mid == (lo + hi + 1) \div 2
         IN IF mid * mid <= n THEN SqrtSearch(n, mid, hi)
                              ELSE SqrtSearch(n, lo, mid - 1)

\* floor(sqrt(a*a + b*b)), which lies between max(|a|,|b|) and |a|+|b|
Norm(a, b) == SqrtSearch(a * a + b * b, Max(Abs(a), Abs(b)), Abs(a) + Abs(b))

\* Math.sqrt(dx*dx + dy*dy); long vectors are measured at a quarter of the
\* resolution to stay within 32 bits
Hypot(dx, dy) ==
    IF Abs(dx) <= 30000 /\ Abs(dy) <= 30000
    THEN Norm(dx, dy)
    ELSE 4 * Norm(dx \div 4, dy \div 4)

\* sqrt(dx^2 + dy^2) < r, > r, exactly (r <= 30000)
DistLT(dx, dy, r) == Abs(dx) < r /\ Abs(dy) < r /\ dx * dx + dy * dy < r * r
DistGT(dx, dy, r) == Abs(dx) > r \/ Abs(dy) > r \/ dx * dx + dy * dy > r * r

\* ------------------------------------------------- draws of Math.random()
\* Every Math.random() of the code is a choice from a small set.
ShapeDraws  == {"triangle", "rectangle", "star"}
Redraws     == {"triangle", "star"}
PowerDraws  == {"none", "star", "star_eliminator", "star_reducer"}
SpawnPoints == {<<100 * Scale, 300 * Scale>>, <<400 * Scale, 300 * Scale>>,
                <<400 * Scale, 530 * Scale>>}
PowerSpawn  == <<250 * Scale, 300 * Scale>>
SizeDraws   == {30 * Scale, 80 * Scale}
AccDraws    == {100}
KickDraws   == {<<10, -10>>}
DurDraws    == {0}

\* what one spawning call (createInitialObstacles, nextLevel) draws: shape,
\* position, size and chase accuracy of the regular obstacle, and the kind of
\* the power obstacle ("none": the 30% roll failed)
SpawnDraws == [shape : ShapeDraws, pos : SpawnPoints, size : SizeDraws,
               acc : AccDraws, power : PowerDraws]
NoSpawn    == [shape |-> "triangle", pos |-> <<100 * Scale, 300 * Scale>>,
               size |-> 30 * Scale, acc |-> 100, power |-> "none"]

\* the draws explored for createInitialObstacles (which ignores the size)
InitDraws ==
    {d \in SpawnDraws :
        /\ d.size = 30 * Scale
        /\ d.pos = <<400 * Scale, 300 * Scale>>
        /\ \/ d.power = "none" /\ d.shape = "triangle"
           \/ d.power # "none" /\ d.shape = "rectangle"}

\* the draws explored for nextLevel
LevelDraws ==
    {d \in SpawnDraws :
        /\ d.pos = <<400 * Scale, 530 * Scale>>
        /\ \/ d.power = "none" /\ d.shape = "triangle" /\ d.size = 30 * Scale
           \/ d.power = "none" /\ d.shape = "star" /\ d.size = 80 * Scale
           \/ d.power = "star_reducer" /\ d.shape = "rectangle" /\ d.size = 80 * Scale
           \/ d.power = "star_reducer" /\ d.shape = "star" /\ d.size = 80 * Scale}

\* the draws explored for a resetLevel or a new engine
RestartDraws == {d \in InitDraws : d.power = "none"}

\* what one tick of updateObstacles draws: which obstacle's blindness roll
\* succeeds (0: none), the blind duration (percent of the range), the blind
\* perturbation, and the shapes drawn by a power steal and by the shape shifter
NoTick == [blindWho |-> 0, dur |-> 0, kick |-> <<10, -10>>,
           stealShape |-> "triangle", shiftShape |-> "triangle"]

\* ------------------------------------------------------------------ state
VARIABLES
    clock,                \* wall clock, thirds of a millisecond
    level, gameOver, success,
    player,               \* [x, y, infected, infectionProgress, trail]
    obstacles,            \* sequence of obstacle records
    playerPower,          \* [active, type, endTime, timer, hasPower]
    intervals,            \* handles of the pending setInterval timers
    pollDue,              \* clock value at which the pending interval fires next
    particles,            \* one entry per burst: remaining life (percent)
    gameOverDisplay,      \* [visible, alpha, targetAlpha, startTime]
    keys, touchX, touchY, \* input state written by the listeners
    lastTime, accumulator,
    pc,                   \* position of the render callback: "idle" | "loop"
    stuckTimer, lastPlayerPosition, shapeShifterCooldown,
    calls,                \* notifications received by the UI callbacks
    nextId,               \* identity of the next obstacle / timer object
    staleLoops,           \* replaced engines whose callback chain still runs
    staleListeners,       \* replaced engines whose listeners are still attached
    owed, updatesRun,     \* history: updates owed / run by the current callback
    observed,             \* history: [hits, shielded, resets, replaced, before,
                          \*           stolen, effectOnPower, shifts,
                          \*           eliminated, earlyPair, pairTwice,
                          \*           skipped, shieldedAfterHit, donor]
    frames, events, restarts   \* exploration budgets

vars == <<clock, level, gameOver, success, player, obstacles, playerPower,
          intervals, pollDue, particles, gameOverDisplay, keys, touchX, touchY,
          lastTime, accumulator, pc, stuckTimer, lastPlayerPosition,
          shapeShifterCooldown, calls, nextId, staleLoops, staleListeners,
          owed, updatesRun, observed, frames, events, restarts>>

DateNow == clock \div 3

\* The engine fields an update reads and writes, as one record
Engine == [level |-> level, gameOver |-> gameOver, success |-> success,
           player |-> player, obstacles |-> obstacles,
           playerPower |-> playerPower, intervals |-> intervals,
           pollDue |-> pollDue, particles |-> particles,
           gameOverDisplay |-> gameOverDisplay, stuckTimer |-> stuckTimer,
           lastPlayerPosition |-> lastPlayerPosition,
           shapeShifterCooldown |-> shapeShifterCooldown, calls |-> calls,
           nextId |-> nextId, observed |-> observed,
           events |-> events,
           usedSpawn |-> FALSE, usedSteal |-> FALSE, usedShift |-> FALSE,
           resolvedPairs |-> {}, hitNow |-> FALSE]

SpawnPlayer == [x |-> spawnX, y |-> spawnY, infected |-> FALSE,
                infectionProgress |-> 0, trail |-> << >>]

NewObstacle(id, pos, size, shape, bmin, bmax, acc) ==
    [id |-> id, x |-> pos[1], y |-> pos[2], size |-> size, shape |-> shape,
     speedX |-> 0, speedY |-> 0, isBlind |-> FALSE, blindTimer |-> 0,
     blindDuration |-> 0, lastBlindTime |-> 0, blindMin |-> bmin,
     blindMax |-> bmax, chaseAccuracy |-> acc, kickX |-> 0, kickY |-> 0]

\* createInitialObstacles: one regular shape, and a power shape when drawn
CreateInitialObstacles(id, d) ==
    <<NewObstacle(id, d.pos, initialSize, d.shape, 1000, 3000, d.acc)>> \o
    (IF d.power # "none"
     THEN <<NewObstacle(id + 1, PowerSpawn, initialSize, d.power, 1000, 3000, d.acc)>>
     ELSE << >>)

\* ----------------------------------------------------------- power state
DeactivatePlayerPower(e) ==
    [e EXCEPT !.playerPower = [@ EXCEPT !.active = FALSE, !.type = "null",
                                        !.hasPower = FALSE, !.timer = 0],
              !.intervals = IF e.playerPower.timer # 0
                            THEN @ \ {e.playerPower.timer} ELSE @]

ActivatePlayerPower_Stacking(e, powerType) ==
    [e EXCEPT !.playerPower = [active |-> TRUE, type |-> powerType,
                               endTime |-> DateNow + superPowers[powerType],
                               timer |-> e.nextId, hasPower |-> TRUE],
              !.intervals = @ \cup {e.nextId},
              !.pollDue = clock + pollInterval,
              !.nextId = @ + 1,
              !.observed.replaced = @ \/ e.playerPower.active]

ActivatePlayerPower_Relative(e, powerType) ==
    [e EXCEPT !.playerPower = [active |-> TRUE, type |-> powerType,
                               endTime |-> superPowers[powerType],
                               timer |-> e.nextId, hasPower |-> TRUE],
              !.intervals = (IF e.playerPower.timer # 0
                             THEN @ \ {e.playerPower.timer} ELSE @) \cup {e.nextId},
              !.pollDue = clock + pollInterval,
              !.nextId = @ + 1,
              !.observed.replaced = @ \/ e.playerPower.active]

ActivatePlayerPower(e, powerType) ==
    [e EXCEPT !.playerPower = [active |-> TRUE, type |-> powerType,
                               endTime |-> DateNow + superPowers[powerType],
                               timer |-> e.nextId, hasPower |-> TRUE],
              !.intervals = (IF e.playerPower.timer # 0
                             THEN @ \ {e.playerPower.timer} ELSE @) \cup {e.nextId},
              !.pollDue = clock + pollInterval,
              !.nextId = @ + 1,
              !.observed.replaced = @ \/ e.playerPower.active]

\* ---------------------------------------------------------------- resets
CreateParticles(e) == [e EXCEPT !.particles = Append(@, particleLife)]

ResetPlayer_KeepPosition(e) ==
    DeactivatePlayerPower(
        [e EXCEPT !.player = [@ EXCEPT !.infected = FALSE, !.trail = << >>],
                  !.gameOver = FALSE, !.success = FALSE,
                  !.particles = << >>, !.stuckTimer = 0])

ResetPlayer_ClearObstacles(e) ==
    DeactivatePlayerPower(
        [e EXCEPT !.player = SpawnPlayer, !.gameOver = FALSE, !.success = FALSE,
                  !.particles = << >>, !.stuckTimer = 0, !.obstacles = << >>])

ResetPlayer(e) ==
    DeactivatePlayerPower(
        [e EXCEPT !.player = SpawnPlayer, !.gameOver = FALSE, !.success = FALSE,
                  !.particles = << >>, !.stuckTimer = 0])

FreshLevel(e, d) ==
    [e EXCEPT !.gameOverDisplay = [@ EXCEPT !.visible = FALSE,
                                            !.targetAlpha = 0, !.alpha = 0],
              !.obstacles = CreateInitialObstacles(e.nextId, d),
              !.nextId = @ + 2, !.usedSpawn = TRUE]

ResetLevel(e, d) ==
    FreshLevel(DeactivatePlayerPower(
                 [e EXCEPT !.player = SpawnPlayer, !.gameOver = FALSE,
                           !.success = FALSE, !.particles = << >>,
                           !.stuckTimer = 0, !.observed.resets = @ + 1]), d)

RECURSIVE FilterRegular(_)
FilterRegular(obs) ==
    IF obs = << >> THEN << >>
    ELSE IF HasSuperPower(Head(obs).shape) THEN FilterRegular(Tail(obs))
         ELSE <<Head(obs)>> \o FilterRegular(Tail(obs))

NextLevel_NotifyOld(e, d) ==
    LET lvl  == e.level + 1
        kept == FilterRegular(e.obstacles)
        bmin == 1000 + (d.size \div 10)
        bmax == 2000 + (d.size \div 5)
        new  == <<NewObstacle(e.nextId, d.pos, Max(d.size, minShapeSize),
                              d.shape, bmin, bmax, d.acc)>> \o
                (IF d.power # "none"
                 THEN <<NewObstacle(e.nextId + 1, PowerSpawn,
                                    Max(d.size, minShapeSize), d.power,
                                    bmin, bmax, d.acc)>>
                 ELSE << >>)
    IN ResetPlayer(
          [e EXCEPT !.level = lvl,
                    !.calls = [@ EXCEPT !.onLevelChange = Append(@, e.level)],
                    !.obstacles = kept \o new,
                    !.nextId = @ + 2, !.usedSpawn = TRUE])

\* nextLevel, with the onLevelChange notification of index.jsx
NextLevel(e, d) ==
    LET lvl  == e.level + 1
        kept == FilterRegular(e.obstacles)
        bmin == 1000 + (d.size \div 10)
        bmax == 2000 + (d.size \div 5)
        new  == <<NewObstacle(e.nextId, d.pos, Max(d.size, minShapeSize),
                              d.shape, bmin, bmax, d.acc)>> \o
                (IF d.power # "none"
                 THEN <<NewObstacle(e.nextId + 1, PowerSpawn,
                                    Max(d.size, minShapeSize), d.power,
                                    bmin, bmax, d.acc)>>
                 ELSE << >>)
    IN ResetPlayer(
          [e EXCEPT !.level = lvl,
                    !.calls = [@ EXCEPT !.onLevelChange = Append(@, lvl)],
                    !.obstacles = kept \o new,
                    !.nextId = @ + 2, !.usedSpawn = TRUE])

\* ----------------------------------------------------------------- player
\* checkExitCollision
CheckExitCollision(p) ==
    /\ p.x + playerRadius > exit.x
    /\ p.x - playerRadius < exit.x + exit.width
    /\ p.y + playerRadius > exit.y
    /\ p.y - playerRadius < exit.y + exit.height

\* updatePlayerTrail
UpdatePlayerTrail_Oldest(p) ==
    LET t == p.trail \o <<<<p.x, p.y>>>>
    IN [p EXCEPT !.trail = IF Len(t) > trailCapacity
                           THEN SubSeq(t, 2, Len(t)) ELSE t]

UpdatePlayerTrail(p) ==
    LET t == <<<<p.x, p.y>>>> \o p.trail
    IN [p EXCEPT !.trail = IF Len(t) > trailCapacity
                           THEN SubSeq(t, 1, Len(t) - 1) ELSE t]

Held(k1, k2) == k1 \in keys \/ k2 \in keys

\* updatePlayer, lines 329-332: keyboard intent
KeyMove(p) ==
    [p EXCEPT !.y = @ - (IF Held("ArrowUp", "w") THEN playerSpeed ELSE 0)
                      + (IF Held("ArrowDown", "s") THEN playerSpeed ELSE 0),
              !.x = @ - (IF Held("ArrowLeft", "a") THEN playerSpeed ELSE 0)
                      + (IF Held("ArrowRight", "d") THEN playerSpeed ELSE 0)]

TouchTowards(p, dx, dy, distance) ==
    IF distance > touchDeadzone
    THEN [p EXCEPT !.x = @ + RDiv(dx * playerSpeed, distance),
                   !.y = @ + RDiv(dy * playerSpeed, distance)]
    ELSE p

\* updatePlayer, lines 335-343: touch intent
TouchMove(p) ==
    IF touchX # 0 /\ touchY # 0
    THEN TouchTowards(p, touchX - p.x, touchY - p.y,
                      Hypot(touchX - p.x, touchY - p.y))
    ELSE p

ClampPlayer_None(p) == p

\* updatePlayer, lines 346-347: keep the player in bounds
ClampPlayer(p) ==
    [p EXCEPT !.x = Max(playerRadius, Min(canvasWidth - playerRadius, @)),
              !.y = Max(playerRadius, Min(canvasHeight - playerRadius, @))]

MovePlayer(p) == ClampPlayer(TouchMove(KeyMove(p)))

CheckIfStuck_PlayerOnly(e, d) ==
    IF /\ e.player.x < nearEntranceX
       /\ DistLT(e.player.x - e.lastPlayerPosition.x,
                 e.player.y - e.lastPlayerPosition.y, positionChangeThreshold)
    THEN IF e.stuckTimer + stuckStep >= stuckThreshold
         THEN [ResetPlayer(e) EXCEPT !.stuckTimer = 0]
         ELSE [e EXCEPT !.stuckTimer = @ + stuckStep]
    ELSE [e EXCEPT !.stuckTimer = 0]

\* checkIfStuck
CheckIfStuck(e, d) ==
    IF /\ e.player.x < nearEntranceX
       /\ DistLT(e.player.x - e.lastPlayerPosition.x,
                 e.player.y - e.lastPlayerPosition.y, positionChangeThreshold)
    THEN IF e.stuckTimer + stuckStep >= stuckThreshold
         THEN [ResetLevel(e, d) EXCEPT !.stuckTimer = 0]
         ELSE [e EXCEPT !.stuckTimer = @ + stuckStep]
    ELSE [e EXCEPT !.stuckTimer = 0]

\* callbacks.onSuccess of index.jsx: the UI advances the engine at once
OnSuccess(e, d) ==
    NextLevel([e EXCEPT !.calls = [@ EXCEPT !.onSuccess = @ + 1]], d)

\* updatePlayer, lines 325-350: remember the position, move, extend the trail
StepPlayer(e) ==
    [e EXCEPT !.lastPlayerPosition = [x |-> e.player.x, y |-> e.player.y],
              !.player = UpdatePlayerTrail(MovePlayer(@))]

\* updatePlayer, lines 353-356: exit detection
ExitCheck(e, d) ==
    IF CheckExitCollision(e.player)
    THEN OnSuccess([e EXCEPT !.success = TRUE], d)
    ELSE e

\* updatePlayer
UpdatePlayer(e, d) == CheckIfStuck(ExitCheck(StepPlayer(e), d), d)

\* -------------------------------------------------------------- obstacles
CalculateSizeBasedSpeed_Stepped(size) ==
    2 * Scale - 25 * ((size - 30 * Scale) \div (10 * Scale))

\* calculateSizeBasedSpeed: 2.0 - 1.5 * (size - 30) / 60 pixels per tick
CalculateSizeBasedSpeed(size) ==
    2 * Scale - RDiv(150 * (size - 30 * Scale), 60 * Scale)

\* checkCollision's table of collision radii, in thousandths of the size
CollisionFactor(shape) ==
    CASE shape = "triangle"  -> 500
      [] shape = "square"    -> 707
      [] shape = "rectangle" -> 1250
      [] shape = "ellipse"   -> 1250
      [] shape = "star"      -> 500
      [] shape = "pentagon"  -> 688
      [] shape = "hexagon"   -> 866
      [] shape = "octagon"   -> 924
      [] shape = "diamond"   -> 707
      [] shape = "cross"     -> 650
      [] shape = "heart"     -> 750
      [] shape = "moon"      -> 850
      [] shape = "cloud"     -> 600
      [] shape = "lightning" -> 500
      [] shape = "spiral"    -> 600
      [] OTHER               -> 800

\* checkCollision
CheckCollision(p, o) ==
    DistLT(p.x - o.x, p.y - o.y,
           playerRadius + RDiv(o.size * CollisionFactor(o.shape), 1000))

Bump_OneSided(e, i, j, impulseX, impulseY, separationX, separationY) ==
    [e EXCEPT !.obstacles[i] = [@ EXCEPT !.speedX = @ - impulseX,
                                         !.speedY = @ - impulseY,
                                         !.x = @ - separationX,
                                         !.y = @ - separationY],
              !.obstacles[j] = [@ EXCEPT !.x = @ + separationX,
                                         !.y = @ + separationY]]

\* handleObstacleCollision, lines 1333-1346: impulse and separation
Bump(e, i, j, impulseX, impulseY, separationX, separationY) ==
    [e EXCEPT !.obstacles[i] = [@ EXCEPT !.speedX = @ - impulseX,
                                         !.speedY = @ - impulseY,
                                         !.x = @ - separationX,
                                         !.y = @ - separationY],
              !.obstacles[j] = [@ EXCEPT !.speedX = @ + impulseX,
                                         !.speedY = @ + impulseY,
                                         !.x = @ + separationX,
                                         !.y = @ + separationY],
              !.resolvedPairs = @ \cup {{e.obstacles[i].id, e.obstacles[j].id}},
              !.observed.earlyPair = @ \/ j > i,
              !.observed.pairTwice =
                  @ \/ {e.obstacles[i].id, e.obstacles[j].id} \in e.resolvedPairs]

Resolve_QuarterSeparation(e, i, j, dx, dy, distance, overlap, impulse) ==
    Bump(e, i, j, RDiv(impulse * dx, distance), RDiv(impulse * dy, distance),
         RDiv(dx * overlap, 4 * distance), RDiv(dy * overlap, 4 * distance))

\* handleObstacleCollision, lines 1326-1341: impulse = -(1 + elasticity) * rv
Resolve(e, i, j, dx, dy, distance, overlap, impulse) ==
    Bump(e, i, j, RDiv(impulse * dx, distance), RDiv(impulse * dy, distance),
         RDiv(dx * overlap, 2 * distance), RDiv(dy * overlap, 2 * distance))

Approach(e, i, j, dx, dy, minDistance, distance, dot) ==
    IF DistLT(dx, dy, minDistance) /\ distance > 0 /\ dot < 0
    THEN Resolve(e, i, j, dx, dy, distance, minDistance - distance,
                 RDiv(-18 * RDiv(dot, distance), 10))
    ELSE e

RelativeDot(o1, o2) ==
    (o2.speedX - o1.speedX) * (o2.x - o1.x) + (o2.speedY - o1.speedY) * (o2.y - o1.y)

\* handleObstacleCollision(obstacles[i], obstacles[j])
HandleObstacleCollision(e, i, j) ==
    Approach(e, i, j,
             e.obstacles[j].x - e.obstacles[i].x,
             e.obstacles[j].y - e.obstacles[i].y,
             e.obstacles[i].size + e.obstacles[j].size,
             Hypot(e.obstacles[j].x - e.obstacles[i].x,
                   e.obstacles[j].y - e.obstacles[i].y),
             RelativeDot(e.obstacles[i], e.obstacles[j]))

\* updateObstacles, lines 469-474: obstacle i against every other obstacle
RECURSIVE CollideWithOthers(_, _, _)
CollideWithOthers(e, i, j) ==
    IF j > Len(e.obstacles) THEN e
    ELSE CollideWithOthers(IF j # i THEN HandleObstacleCollision(e, i, j) ELSE e,
                           i, j + 1)

\* the player is strictly inside the protection radius of the entrance midpoint
StrictlyInside(p) ==
    DistLT(p.x - entrance.x, p.y - (entrance.y + entrance.height \div 2),
           entranceProtectionRadius)

GameOverHit_NoReset(e) ==
    [e EXCEPT !.player.infected = TRUE,
              !.gameOver = TRUE,
              !.observed.hits = Append(@, [x |-> e.player.x, y |-> e.player.y,
                                          active |-> e.playerPower.active]),
              !.gameOverDisplay = [visible |-> TRUE, targetAlpha |-> 100,
                                   alpha |-> 0, startTime |-> DateNow]]

GameOverHit_NoDisplay(e) ==
    ResetPlayer(
       [e EXCEPT !.player.infected = TRUE,
                 !.gameOver = TRUE,
                 !.observed.hits = Append(@, [x |-> e.player.x, y |-> e.player.y,
                                             active |-> e.playerPower.active])])

\* handleCollision, lines 514-526: game over, then the immediate player reset
GameOverHit(e) ==
    ResetPlayer(
       [e EXCEPT !.player.infected = TRUE,
                 !.gameOver = TRUE,
                 !.hitNow = TRUE,
                 !.observed.hits = Append(@, [x |-> e.player.x, y |-> e.player.y,
                                             active |-> e.playerPower.active]),
                 !.gameOverDisplay = [visible |-> TRUE, targetAlpha |-> 100,
                                      alpha |-> 0, startTime |-> DateNow]])

\* handleCollision, lines 508-512: the player steals the obstacle's power
StealPower(e, i, t) ==
    [CreateParticles(ActivatePlayerPower(e, e.obstacles[i].shape))
        EXCEPT !.obstacles[i].shape = t.stealShape,
               !.observed.stolen = Append(@, t.stealShape),
               !.usedSteal = TRUE]

HandleCollision_Unprotected(e, i, t) ==
    IF HasSuperPower(e.obstacles[i].shape) /\ ~e.playerPower.hasPower
    THEN StealPower(e, i, t)
    ELSE IF ~e.playerPower.active THEN GameOverHit(e) ELSE e

\* handleCollision(obstacles[i])
HandleCollision(e, i, t) ==
    IF DistGT(e.player.x - entrance.x,
              e.player.y - (entrance.y + entrance.height \div 2),
              entranceProtectionRadius)
    THEN IF HasSuperPower(e.obstacles[i].shape) /\ ~e.playerPower.hasPower
         THEN StealPower(e, i, t)
         ELSE IF ~e.playerPower.active THEN GameOverHit(e) ELSE e
    ELSE [e EXCEPT !.observed.shielded = @ \/ StrictlyInside(e.player),
                   !.observed.shieldedAfterHit = @ \/ e.hitNow]

RemoveAt(seq, i) == SubSeq(seq, 1, i - 1) \o SubSeq(seq, i + 1, Len(seq))

ReducerEffect_NoFloor(size) == RDiv(size * 9, 10)

ReducerEffect_FloorFirst(size) == RDiv(Max(size, minShapeSize) * 9, 10)

\* superPowers[type].effect(obstacles[i])
ReducerEffect(size) == Max(RDiv(size * 9, 10), minShapeSize)

ShiftEffect_NoCooldown(e, i, t) ==
    [e EXCEPT !.obstacles[i].shape = t.shiftShape,
              !.shapeShifterCooldown = [active |-> TRUE, lastChange |-> DateNow],
              !.observed.shifts = Append(@, DateNow),
              !.usedShift = TRUE]

ShiftEffect(e, i, t) ==
    IF \/ ~e.shapeShifterCooldown.active
       \/ DateNow - e.shapeShifterCooldown.lastChange >= cooldownTime
    THEN [e EXCEPT !.obstacles[i].shape = t.shiftShape,
                   !.shapeShifterCooldown = [active |-> TRUE, lastChange |-> DateNow],
                   !.observed.shifts = Append(@, DateNow),
                   !.usedShift = TRUE]
    ELSE e

EliminatorEffect_First(e, i) == [e EXCEPT !.obstacles = Tail(@)]

EliminatorEffect(e, i) == [e EXCEPT !.obstacles = RemoveAt(@, i)]

PowerEffect(e, i, t) ==
    CASE e.playerPower.type = "star" -> ShiftEffect(e, i, t)
      [] e.playerPower.type = "star_eliminator" ->
            [EliminatorEffect(e, i)
                EXCEPT !.observed.eliminated = @ \cup {e.obstacles[i].id}]
      [] e.playerPower.type = "star_reducer" ->
            [e EXCEPT !.obstacles[i].size = ReducerEffect(@)]

\* updateObstacles, lines 388-393: the blindness roll succeeded
EnterBlind(o, enter, t) ==
    IF enter
    THEN [o EXCEPT !.isBlind = TRUE,
                   !.blindDuration = o.blindMin +
                       RDiv(t.dur * (o.blindMax - o.blindMin), 100),
                   !.blindTimer = 0,
                   !.kickX = t.kick[1], !.kickY = t.kick[2]]
    ELSE o

\* updateObstacles, lines 395-401: blind timer
BlindStep(o) ==
    IF o.isBlind
    THEN IF o.blindTimer + 16 >= o.blindDuration
         THEN [o EXCEPT !.blindTimer = @ + 16, !.isBlind = FALSE,
                        !.lastBlindTime = DateNow]
         ELSE [o EXCEPT !.blindTimer = @ + 16]
    ELSE o

Push(o, ex, ey, distanceToEntrance, forceMagnitude) ==
    [o EXCEPT !.speedX = @ + RDiv(ex * forceMagnitude, distanceToEntrance),
              !.speedY = @ + RDiv(ey * forceMagnitude, distanceToEntrance)]

RepelFrom(o, ex, ey, distanceToEntrance) ==
    IF DistLT(ex, ey, entranceProtectionRadius) /\ distanceToEntrance > 0
    THEN Push(o, ex, ey, distanceToEntrance,
              RDiv(entranceProtectionForce *
                     (entranceProtectionRadius - distanceToEntrance),
                   entranceProtectionRadius))
    ELSE o

\* updateObstacles, lines 406-421: entrance repulsion
Repel(o) ==
    RepelFrom(o, o.x - entrance.x, o.y - (entrance.y + entrance.height \div 2),
              Hypot(o.x - entrance.x, o.y - (entrance.y + entrance.height \div 2)))

Pursue_Away(o, dx, dy, distance, speed) ==
    IF distance > 0
    THEN [o EXCEPT !.speedX = -RDiv(RDiv(dx * speed, distance) * o.chaseAccuracy, 100),
                   !.speedY = -RDiv(RDiv(dy * speed, distance) * o.chaseAccuracy, 100)]
    ELSE o

Pursue(o, dx, dy, distance, speed) ==
    IF distance > 0
    THEN [o EXCEPT !.speedX = RDiv(RDiv(dx * speed, distance) * o.chaseAccuracy, 100),
                   !.speedY = RDiv(RDiv(dy * speed, distance) * o.chaseAccuracy, 100)]
    ELSE o

Wander(o, maxSpeed) ==
    [o EXCEPT !.speedX = Max(-maxSpeed, Min(maxSpeed, @ + o.kickX)),
              !.speedY = Max(-maxSpeed, Min(maxSpeed, @ + o.kickY))]

\* updateObstacles, lines 424-442: pursuit heading, or blind wandering
Heading(o, p) ==
    IF ~o.isBlind
    THEN Pursue(o, p.x - o.x, p.y - o.y, Hypot(p.x - o.x, p.y - o.y),
                CalculateSizeBasedSpeed(o.size))
    ELSE Wander(o, CalculateSizeBasedSpeed(o.size) \div 2)

\* updateObstacles, lines 445-450: friction, then integration
Integrate(o) ==
    [o EXCEPT !.speedX = RDiv(@ * 99, 100),
              !.speedY = RDiv(@ * 99, 100),
              !.x = @ + RDiv(o.speedX * 99, 100),
              !.y = @ + RDiv(o.speedY * 99, 100)]

\* updateObstacles, lines 453-467: keep the obstacle in bounds with bounce
Bounce(o) ==
    [o EXCEPT !.x = IF o.x - o.size < 0 THEN o.size
                    ELSE IF o.x + o.size > canvasWidth
                         THEN canvasWidth - o.size ELSE @,
              !.speedX = IF o.x - o.size < 0 \/ o.x + o.size > canvasWidth
                         THEN RDiv(-@ * 8, 10) ELSE @,
              !.y = IF o.y - o.size < 0 THEN o.size
                    ELSE IF o.y + o.size > canvasHeight
                         THEN canvasHeight - o.size ELSE @,
              !.speedY = IF o.y - o.size < 0 \/ o.y + o.size > canvasHeight
                         THEN RDiv(-@ * 8, 10) ELSE @]

\* updateObstacles, lines 385-467, for one obstacle
MoveObstacle(o, p, enter, t) ==
    Bounce(Integrate(Heading(Repel(BlindStep(EnterBlind(o, enter, t))), p)))

Rolls(e, i, t) ==
    /\ ~e.obstacles[i].isBlind
    /\ t.blindWho = i
    /\ e.events < MaxEvents

MoveAt(e, i, t) ==
    [e EXCEPT !.obstacles[i] = MoveObstacle(@, e.player, Rolls(e, i, t), t),
              !.events = IF Rolls(e, i, t) THEN @ + 1 ELSE @]

\* updateObstacles, lines 477-479: collision with the player
Collide(e, i, t) ==
    IF CheckCollision(e.player, e.obstacles[i])
    THEN HandleCollision(e, i, t) ELSE e

ApplyPower_NotDonor(e, i, t) ==
    IF e.playerPower.active /\ ~e.usedSteal
       /\ CheckCollision(e.player, e.obstacles[i])
    THEN CreateParticles(PowerEffect(
            [e EXCEPT !.observed.effectOnPower =
                          @ \/ HasSuperPower(e.obstacles[i].shape)], i, t))
    ELSE e

\* updateObstacles, lines 482-486: effect of the active power
ApplyPower(e, i, t) ==
    IF e.playerPower.active /\ CheckCollision(e.player, e.obstacles[i])
    THEN CreateParticles(PowerEffect(
            [e EXCEPT !.observed.effectOnPower =
                          @ \/ HasSuperPower(e.obstacles[i].shape)], i, t))
    ELSE e

\* updateObstacles, between lines 479 and 482: when handleCollision has just
\* stolen the power of obstacle i, note the donor as the power test will see it
DonorNote(had, e, i) ==
    IF e.usedSteal /\ ~had
    THEN [e EXCEPT !.observed.donor =
             [id |-> e.obstacles[i].id, type |-> e.playerPower.type,
              overlaps |-> CheckCollision(e.player, e.obstacles[i]),
              size |-> e.obstacles[i].size]]
    ELSE e

\* updateObstacles: the body of the forEach for the obstacle at index i
StepObstacle(e, i, t) ==
    ApplyPower(DonorNote(e.usedSteal,
                         Collide(CollideWithOthers(MoveAt(e, i, t), i, 1), i, t),
                         i), i, t)

\* updateObstacles: forEach visits index i while it exists, so an element that
\* a splice moves into an index already visited is not visited in this tick
\* e is the engine after the callback for index i, n the length before it:
\* when the callback spliced its element out, the element that moved into
\* index i is passed over by the forEach
AfterVisit(e, i, n) ==
    [e EXCEPT !.observed.skipped =
                  @ \/ (Len(e.obstacles) < n /\ i <= Len(e.obstacles))]

RECURSIVE UpdateObstaclesFrom(_, _, _)
UpdateObstaclesFrom(e, i, t) ==
    IF i > Len(e.obstacles) THEN e
    ELSE UpdateObstaclesFrom(AfterVisit(StepObstacle(e, i, t), i, Len(e.obstacles)),
                             i + 1, t)

UpdateObstacles(e, t) == UpdateObstaclesFrom(e, 1, t)

\* updateParticles
UpdateParticles(e) ==
    [e EXCEPT !.particles =
        SelectSeq([k \in 1..Len(@) |-> @[k] - particleDecay], LAMBDA l : l > 0)]

Update_Always(e, d, t) ==
    UpdateParticles(UpdateObstacles(UpdatePlayer(e, d), t))

\* update
Update(e, d, t) ==
    IF ~e.success
    THEN UpdateParticles(UpdateObstacles(UpdatePlayer(e, d), t))
    ELSE e

\* drawGameOverDisplay: the only simulation-side state that draw() writes
DrawGameOverDisplay(g) ==
    IF ~g.visible THEN g
    ELSE LET expired == DateNow - g.startTime >= displayTime
             g1 == IF expired THEN [g EXCEPT !.targetAlpha = 0] ELSE g
         IN IF expired /\ g1.alpha <= 0
            THEN [g1 EXCEPT !.visible = FALSE]
            ELSE IF g1.alpha < g1.targetAlpha
                 THEN [g1 EXCEPT !.alpha = Min(@ + fadeSpeed, g1.targetAlpha)]
                 ELSE IF g1.alpha > g1.targetAlpha
                      THEN [g1 EXCEPT !.alpha = Max(@ - fadeSpeed, g1.targetAlpha)]
                      ELSE g1

DrawPlayer_Always(p) == [p EXCEPT !.infectionProgress = Min(100, @ + 2)]

\* draw, lines 1211-1214
DrawPlayer(p) ==
    IF p.infected
    THEN [p EXCEPT !.infectionProgress = Min(100, @ + 2)]
    ELSE p

\* ---------------------------------------------------------------- actions
FrameDeltas == {3025}
KeySet      == {"ArrowRight", "ArrowUp"}
TouchPoints == {<<790 * Scale, 300 * Scale>>}

\* constructor: the fields of a new engine; gameLoop(0) at line 168 runs no
\* update and leaves lastTime = 0
Constructed(d, id) ==
    [level |-> 1, gameOver |-> FALSE, success |-> FALSE,
     player |-> SpawnPlayer,
     obstacles |-> CreateInitialObstacles(id, d),
     playerPower |-> [active |-> FALSE, type |-> "null", endTime |-> 0,
                      timer |-> 0, hasPower |-> FALSE],
     particles |-> << >>,
     gameOverDisplay |-> [visible |-> FALSE, alpha |-> 0, targetAlpha |-> 0,
                          startTime |-> 0],
     stuckTimer |-> 0,
     lastPlayerPosition |-> [x |-> 0, y |-> 0],
     shapeShifterCooldown |-> [active |-> FALSE, lastChange |-> 0],
     calls |-> [onSuccess |-> 0, onLevelChange |-> << >>, onGameOver |-> 0],
     nextId |-> id + 2,
     observed |-> [hits |-> << >>, shielded |-> FALSE, resets |-> 0,
                   replaced |-> FALSE, before |-> << >>,
                   stolen |-> << >>, effectOnPower |-> FALSE,
                   shifts |-> << >>, eliminated |-> {},
                   earlyPair |-> FALSE, pairTwice |-> FALSE,
                   skipped |-> FALSE, shieldedAfterHit |-> FALSE,
                   donor |-> [id |-> 0, type |-> "null", overlaps |-> FALSE,
                              size |-> 0]]]

\* new GameEngine(canvas, callbacks), first engine of the page
Init ==
    /\ clock = 0
    /\ intervals = {}
    /\ pollDue = 0
    /\ staleLoops = 0
    /\ staleListeners = 0
    /\ frames = 0
    /\ events = 0
    /\ restarts = 0
    /\ keys = {}
    /\ touchX = 0
    /\ touchY = 0
    /\ lastTime = 0
    /\ accumulator = 0
    /\ pc = "idle"
    /\ owed = 0
    /\ updatesRun = 0
    /\ \E d \in InitDraws :
         LET r == Constructed(d, 1)
         IN /\ level = r.level
            /\ gameOver = r.gameOver
            /\ success = r.success
            /\ player = r.player
            /\ obstacles = r.obstacles
            /\ playerPower = r.playerPower
            /\ particles = r.particles
            /\ gameOverDisplay = r.gameOverDisplay
            /\ stuckTimer = r.stuckTimer
            /\ lastPlayerPosition = r.lastPlayerPosition
            /\ shapeShifterCooldown = r.shapeShifterCooldown
            /\ calls = r.calls
            /\ nextId = r.nextId
            /\ observed = r.observed

\* the engine record r becomes the state
Commit(r) ==
    /\ level' = r.level
    /\ gameOver' = r.gameOver
    /\ success' = r.success
    /\ player' = r.player
    /\ obstacles' = r.obstacles
    /\ playerPower' = r.playerPower
    /\ intervals' = r.intervals
    /\ pollDue' = r.pollDue
    /\ particles' = r.particles
    /\ gameOverDisplay' = r.gameOverDisplay
    /\ stuckTimer' = r.stuckTimer
    /\ lastPlayerPosition' = r.lastPlayerPosition
    /\ shapeShifterCooldown' = r.shapeShifterCooldown
    /\ calls' = r.calls
    /\ nextId' = r.nextId
    /\ observed' = r.observed
    /\ events' = r.events

PollIsDue == intervals # {} /\ clock >= pollDue

Expired_Always(now, endTime) == TRUE

\* activatePlayerPower, line 1361: the test of the expiry poll
Expired(now, endTime) == now >= endTime

\* gameLoop, lines 1275-1280: the host calls back with a later timestamp
GameLoopStart(dt) ==
    /\ pc = "idle"
    /\ frames < MaxFrames
    /\ ~PollIsDue
    /\ LET timestamp == clock + dt
           last == IF lastTime = 0 THEN timestamp ELSE lastTime
           deltaTime == timestamp - last
       IN /\ clock' = timestamp
          /\ lastTime' = timestamp
          /\ accumulator' = accumulator + deltaTime
          /\ owed' = (accumulator + deltaTime) \div timeStep
    /\ updatesRun' = 0
    /\ frames' = frames + 1
    /\ pc' = "loop"
    /\ UNCHANGED <<level, gameOver, success, player, obstacles, playerPower,
                   intervals, pollDue, particles, gameOverDisplay, keys, touchX,
                   touchY, stuckTimer, lastPlayerPosition, shapeShifterCooldown,
                   calls, nextId, staleLoops, staleListeners, observed,
                   events, restarts>>

\* exploration stops at a state whose obstacle speeds have outgrown MaxSpeed
SpeedsBounded ==
    \A i \in 1..Len(obstacles) :
        Abs(obstacles[i].speedX) <= MaxSpeed /\ Abs(obstacles[i].speedY) <= MaxSpeed

LoopContinues_Strict(acc) == acc > timeStep

LoopContinues(acc) == acc >= timeStep

\* One update with its draws.  r is the update under the default draws; a
\* draw is enumerated only when the update consumes it.
TickShift(r, d, t) ==
    IF r.usedShift
    THEN \E sh \in Redraws : Commit(Update(Engine, d, [t EXCEPT !.shiftShape = sh]))
    ELSE Commit(r)

TickSteal(r, d, t) ==
    IF r.usedSteal
    THEN \E ss \in Redraws :
           LET t1 == [t EXCEPT !.stealShape = ss]
           IN TickShift(Update(Engine, d, t1), d, t1)
    ELSE TickShift(r, d, t)

TickSpawn(r, t) ==
    IF r.usedSpawn
    THEN \E d \in LevelDraws : TickSteal(Update(Engine, d, t), d, t)
    ELSE TickSteal(r, NoSpawn, t)

\* gameLoop, lines 1282-1285: one iteration of the catch-up loop
UpdateStep ==
    /\ pc = "loop"
    /\ LoopContinues(accumulator)
    /\ SpeedsBounded
    /\ \E bw \in (IF events < MaxEvents /\ updatesRun = 0
                  THEN 0..Len(obstacles) ELSE {0}) :
       \E kick \in (IF bw # 0 THEN KickDraws ELSE {NoTick.kick}) :
       \E dur \in (IF bw # 0 THEN DurDraws ELSE {NoTick.dur}) :
         LET t == [NoTick EXCEPT !.blindWho = bw, !.kick = kick, !.dur = dur]
         IN TickSpawn(Update(Engine, NoSpawn, t), t)
    /\ accumulator' = accumulator - timeStep
    /\ updatesRun' = updatesRun + 1
    /\ UNCHANGED <<clock, keys, touchX, touchY, lastTime, pc, staleLoops,
                   staleListeners, owed, frames, restarts>>

\* gameLoop, lines 1287-1288: draw and re-arm the callback
DrawStep ==
    /\ pc = "loop"
    /\ ~LoopContinues(accumulator)
    /\ gameOverDisplay' = DrawGameOverDisplay(gameOverDisplay)
    /\ player' = DrawPlayer(player)
    /\ pc' = "idle"
    /\ UNCHANGED <<clock, level, gameOver, success, obstacles, playerPower,
                   intervals, pollDue, particles, keys, touchX, touchY, lastTime,
                   accumulator, stuckTimer, lastPlayerPosition,
                   shapeShifterCooldown, calls, nextId, staleLoops,
                   staleListeners, owed, updatesRun, observed, frames,
                   events, restarts>>

\* the interval callback installed by activatePlayerPower
PowerTimerPoll ==
    /\ pc = "idle"
    /\ PollIsDue
    /\ LET r == IF Expired(DateNow, playerPower.endTime)
                THEN DeactivatePlayerPower(Engine) ELSE Engine
       IN Commit([r EXCEPT !.pollDue = clock + pollInterval])
    /\ UNCHANGED <<clock, keys, touchX, touchY, lastTime, accumulator, pc,
                   staleLoops, staleListeners, owed, updatesRun, frames,
                   restarts>>

InputUnchanged ==
    UNCHANGED <<clock, level, gameOver, success, player, obstacles, playerPower,
                intervals, pollDue, particles, gameOverDisplay, lastTime,
                accumulator, pc, stuckTimer, lastPlayerPosition,
                shapeShifterCooldown, calls, nextId, staleLoops, staleListeners,
                owed, updatesRun, observed, frames, restarts>>

\* setupEventListeners: keydown
KeyDown(k) ==
    /\ pc = "idle" /\ events < MaxEvents /\ k \notin keys
    /\ keys' = keys \cup {k}
    /\ events' = events + 1
    /\ UNCHANGED <<touchX, touchY>>
    /\ InputUnchanged

\* setupEventListeners: keyup
KeyUp(k) ==
    /\ pc = "idle" /\ events < MaxEvents /\ k \in keys
    /\ keys' = keys \ {k}
    /\ events' = events + 1
    /\ UNCHANGED <<touchX, touchY>>
    /\ InputUnchanged

\* setupEventListeners: touchstart / touchmove
Touch(pt) ==
    /\ pc = "idle" /\ events < MaxEvents /\ <<touchX, touchY>> # pt
    /\ touchX' = pt[1]
    /\ touchY' = pt[2]
    /\ events' = events + 1
    /\ UNCHANGED keys
    /\ InputUnchanged

\* the collaborator's command resetLevel() (index.jsx handleRestart)
HandleRestart ==
    /\ pc = "idle" /\ events < MaxEvents
    /\ \E d \in RestartDraws :
         Commit([ResetLevel(Engine, d) EXCEPT !.events = @ + 1])
    /\ UNCHANGED <<clock, keys, touchX, touchY, lastTime, accumulator, pc,
                   staleLoops, staleListeners, owed, updatesRun, frames,
                   restarts>>

\* cleanup: the removeEventListener calls name no registered listener and the
\* pending animation frame is not cancelled; only the interval is cleared
Cleanup(timers) == timers \ {playerPower.timer}

\* index.jsx handleFullRestart -> initializeGame: cleanup() of the current
\* engine, then a new engine on the same canvas
HandleFullRestart ==
    /\ pc = "idle" /\ restarts < MaxRestarts /\ events < MaxEvents
    /\ events' = events + 1
    /\ staleLoops' = staleLoops + 1
    /\ staleListeners' = staleListeners + 1
    /\ restarts' = restarts + 1
    /\ \E d \in RestartDraws :
         LET r == Constructed(d, nextId)
         IN /\ level' = r.level
            /\ gameOver' = r.gameOver
            /\ success' = r.success
            /\ player' = r.player
            /\ obstacles' = r.obstacles
            /\ playerPower' = r.playerPower
            /\ particles' = r.particles
            /\ gameOverDisplay' = r.gameOverDisplay
            /\ stuckTimer' = r.stuckTimer
            /\ lastPlayerPosition' = r.lastPlayerPosition
            /\ shapeShifterCooldown' = r.shapeShifterCooldown
            /\ calls' = r.calls
            /\ nextId' = r.nextId
            /\ observed' = r.observed
    /\ intervals' = Cleanup(intervals)
    /\ keys' = {}
    /\ touchX' = 0
    /\ touchY' = 0
    /\ lastTime' = 0
    /\ accumulator' = 0
    /\ owed' = 0
    /\ updatesRun' = 0
    /\ UNCHANGED <<clock, pollDue, pc, frames>>

Next ==
    \/ \E dt \in FrameDeltas : GameLoopStart(dt)
    \/ UpdateStep
    \/ DrawStep
    \/ PowerTimerPoll
    \/ \E k \in KeySet : KeyDown(k)
    \/ \E k \in KeySet : KeyUp(k)
    \/ \E pt \in TouchPoints : Touch(pt)
    \/ HandleRestart
    \/ HandleFullRestart

Spec == Init /\ [][Next]_vars

\* ------------------------------------------- the power state on its own
\* activatePlayerPower and deactivatePlayerPower called directly, in any order,
\* with the interval callback and the passing of time in between
PowerActivate(powerType) ==
    /\ pc = "idle" /\ events < MaxEvents
    /\ Commit([ActivatePlayerPower(Engine, powerType) EXCEPT !.events = @ + 1])
    /\ UNCHANGED <<clock, keys, touchX, touchY, lastTime, accumulator, pc,
                   staleLoops, staleListeners, owed, updatesRun, frames,
                   restarts>>

PowerDeactivate ==
    /\ pc = "idle"
    /\ Commit(DeactivatePlayerPower(Engine))
    /\ UNCHANGED <<clock, keys, touchX, touchY, lastTime, accumulator, pc,
                   staleLoops, staleListeners, owed, updatesRun, frames,
                   restarts>>

PowerClockTick(dt) ==
    /\ pc = "idle" /\ frames < MaxFrames /\ ~PollIsDue
    /\ clock' = clock + dt
    /\ frames' = frames + 1
    /\ UNCHANGED <<level, gameOver, success, player, obstacles, playerPower,
                   intervals, pollDue, particles, gameOverDisplay, keys, touchX,
                   touchY, lastTime, accumulator, pc, stuckTimer,
                   lastPlayerPosition, shapeShifterCooldown, calls, nextId,
                   staleLoops, staleListeners, owed, updatesRun, observed,
                   events, restarts>>

PowerNext ==
    \/ \E powerType \in DOMAIN superPowers : PowerActivate(powerType)
    \/ PowerDeactivate
    \/ PowerTimerPoll
    \/ \E dt \in FrameDeltas : PowerClockTick(dt)

SpecPower == Init /\ [][PowerNext]_vars

\* the host runs a due interval callback
SpecPowerFair == SpecPower /\ WF_vars(PowerTimerPoll)

\* ================================================================ claims
\* C1: each render callback runs exactly floor((accumulator + delta) /
\* timeStep) updates before it draws: while the catch-up loop runs, the
\* updates done plus the whole steps left in the accumulator equal the number
\* owed, and between callbacks 0 <= accumulator < timeStep with every owed
\* update run.
C1_FixedTimestep ==
    /\ accumulator >= 0
    /\ updatesRun + accumulator \div timeStep = owed
    /\ pc = "idle" => accumulator < timeStep /\ updatesRun = owed

\* a slow frame whose accumulated time is an exact multiple of the step has
\* run all 61 owed updates
C1_Witness ==
    pc = "idle" /\ frames = 3 /\ owed = 61 /\ updatesRun = 61 /\ accumulator = 0

\* C2: handleCollision never turns an overlap into infection / game over
\* while the player is strictly inside entranceProtectionRadius of the
\* entrance midpoint: every game-over collision found the player outside.
C2_EntranceProtection ==
    \A k \in 1..Len(observed.hits) : ~StrictlyInside(observed.hits[k])

\* handleCollision has been called for an overlap with the player strictly
\* inside the radius, and an obstacle still overlaps the protected player
C2_Witness ==
    /\ observed.shielded
    /\ StrictlyInside(player)
    /\ \E i \in 1..Len(obstacles) : CheckCollision(player, obstacles[i])

\* C3: an update fires onSuccess exactly when its movement puts the player on
\* the exit, exactly once, and the arrival is a new one (the player was not on
\* the exit before the update); no other step fires onSuccess.
C3_OnSuccessOncePerArrival ==
    [][IF updatesRun' = updatesRun + 1 /\ ~success
       THEN IF CheckExitCollision(MovePlayer(player))
            THEN /\ calls'.onSuccess = calls.onSuccess + 1
                 /\ ~CheckExitCollision(player)
            ELSE calls'.onSuccess = calls.onSuccess
       ELSE calls'.onSuccess <= calls.onSuccess]_vars

\* the player has reached the exit once and is back at the spawn point
C3_Witness ==
    calls.onSuccess = 1 /\ ~success /\ player.x = spawnX /\ level = 2

\* C4: every game-over collision has been notified through onGameOver,
\* exactly once each.
C4_OnGameOverNotified == calls.onGameOver = Len(observed.hits)

\* C5: whenever resetLevel has run, level is 1, the obstacles are an initial
\* set, the player is at the spawn point, uninfected, with an empty trail, and
\* no power is active.
C5_ResetLevelIsFull ==
    [][observed'.resets > observed.resets =>
         /\ level' = 1
         /\ Len(obstacles') \in {1, 2}
         /\ \A i \in 1..Len(obstacles') : obstacles'[i].size = initialSize
         /\ player'.x = spawnX /\ player'.y = spawnY
         /\ ~player'.infected /\ player'.trail = << >>
         /\ ~playerPower'.active]_vars

\* C6: level changes only through nextLevel; a nextLevel raises level by
\* exactly 1, notifies onLevelChange exactly once with the new level, and
\* leaves the player in the spawn state with no power and success false.
C6_NextLevelAdvances ==
    [][/\ Len(calls'.onLevelChange) > Len(calls.onLevelChange) =>
            /\ Len(calls'.onLevelChange) = Len(calls.onLevelChange) + 1
            /\ level' = level + 1
            /\ calls'.onLevelChange[Len(calls'.onLevelChange)] = level'
            /\ player' = SpawnPlayer
            /\ ~playerPower'.active /\ ~playerPower'.hasPower
            /\ ~success'
       /\ (level' # level /\ restarts' = restarts) =>
            Len(calls'.onLevelChange) > Len(calls.onLevelChange)]_vars

\* nextLevel has run once: level 2, notified once with 2
C6_Witness ==
    level = 2 /\ calls.onLevelChange = <<2>> /\ player.trail = << >>

\* C7: after cleanup nothing of the replaced engine keeps running: no render
\* callback chain, no interval, no attached listener.
C7_CleanupStopsEngine ==
    /\ staleLoops = 0
    /\ staleListeners = 0
    /\ intervals \subseteq {playerPower.timer}

\* C8: at most one expiry timer is pending, and it is the active power's;
\* an activatePlayerPower, also while a power is active, leaves exactly the
\* new power: its type, its endTime, its timer and no other.
C8_PowerReplaces ==
    /\ [](/\ Cardinality(intervals) <= 1
          /\ playerPower.active =>
                /\ intervals = {playerPower.timer}
                /\ playerPower.type \in DOMAIN superPowers
          /\ ~playerPower.active =>
                /\ intervals = {}
                /\ playerPower.type = "null")
    /\ [][nextId' = nextId + 1 =>
            /\ playerPower'.active /\ playerPower'.hasPower
            /\ playerPower'.type \in DOMAIN superPowers
            /\ playerPower'.endTime = DateNow + superPowers[playerPower'.type]
            /\ playerPower'.timer = nextId
            /\ intervals' = {nextId}]_vars

\* a power was activated while another was active, and one timer is pending
C8_Witness ==
    observed.replaced /\ playerPower.active /\ Cardinality(intervals) = 1

\* C9: every obstacle of the active set has size >= minShapeSize.
C9_SizeFloor ==
    \A i \in 1..Len(obstacles) : obstacles[i].size >= minShapeSize

\* the reducer has shrunk an obstacle down to the floor
C9_Witness ==
    /\ playerPower.type = "star_reducer"
    /\ \E i \in 1..Len(obstacles) : obstacles[i].size = minShapeSize

\* C10: the player circle is within the canvas in every state.
C10_PlayerInBounds ==
    /\ playerRadius <= player.x /\ player.x <= canvasWidth - playerRadius
    /\ playerRadius <= player.y /\ player.y <= canvasHeight - playerRadius

\* the player is held at the top edge against the pressed key
C10_Witness ==
    player.y = playerRadius /\ "ArrowUp" \in keys /\ updatesRun > 0

\* C11: every obstacle of the active set lies within the canvas by its size:
\* size <= x <= canvas.width - size and size <= y <= canvas.height - size.
C11_ObstaclesInBounds ==
    \A i \in 1..Len(obstacles) :
        /\ obstacles[i].size <= obstacles[i].x
        /\ obstacles[i].x <= canvasWidth - obstacles[i].size
        /\ obstacles[i].size <= obstacles[i].y
        /\ obstacles[i].y <= canvasHeight - obstacles[i].size

\* ------------------------------------- one obstacle pair on its own
\* handleObstacleCollision called directly on a pair of obstacles drawn from
\* small sets of offsets, sizes and velocities
PairOffsets == {<<3000, 0>>, <<0, 5000>>, <<3000, 4000>>, <<-2000, 1000>>,
                <<9000, 0>>, <<0, 0>>}
PairSizes   == {30 * Scale, 40 * Scale}
PairSpeeds1 == {<<100, 0>>, <<0, 0>>, <<-50, 50>>}
PairSpeeds2 == {<<-100, 0>>, <<0, -100>>, <<100, 100>>, <<0, 0>>}

PairOf(off, size, v1, v2) ==
    <<[NewObstacle(1, <<400 * Scale, 300 * Scale>>, initialSize, "triangle",
                   1000, 3000, 100)
          EXCEPT !.speedX = v1[1], !.speedY = v1[2]],
      [NewObstacle(2, <<400 * Scale + off[1], 300 * Scale + off[2]>>, size,
                   "triangle", 1000, 3000, 100)
          EXCEPT !.speedX = v2[1], !.speedY = v2[2]]>>

\* a new engine whose obstacle set is obs, with no callback run yet
Fixture(obs) ==
    /\ clock = 0 /\ intervals = {} /\ pollDue = 0
    /\ staleLoops = 0 /\ staleListeners = 0
    /\ frames = 0 /\ events = 0 /\ restarts = 0
    /\ keys = {} /\ touchX = 0 /\ touchY = 0
    /\ lastTime = 0 /\ accumulator = 0 /\ pc = "idle"
    /\ owed = 0 /\ updatesRun = 0
    /\ level = Constructed(NoSpawn, 1).level
    /\ gameOver = Constructed(NoSpawn, 1).gameOver
    /\ success = Constructed(NoSpawn, 1).success
    /\ player = Constructed(NoSpawn, 1).player
    /\ obstacles = obs
    /\ playerPower = Constructed(NoSpawn, 1).playerPower
    /\ particles = Constructed(NoSpawn, 1).particles
    /\ gameOverDisplay = Constructed(NoSpawn, 1).gameOverDisplay
    /\ stuckTimer = Constructed(NoSpawn, 1).stuckTimer
    /\ lastPlayerPosition = Constructed(NoSpawn, 1).lastPlayerPosition
    /\ shapeShifterCooldown = Constructed(NoSpawn, 1).shapeShifterCooldown
    /\ calls = Constructed(NoSpawn, 1).calls
    /\ nextId = Constructed(NoSpawn, 1).nextId
    /\ observed = Constructed(NoSpawn, 1).observed

PairInit ==
    \E off \in PairOffsets, size \in PairSizes,
       v1 \in PairSpeeds1, v2 \in PairSpeeds2 :
      Fixture(PairOf(off, size, v1, v2))

\* handleObstacleCollision(obstacles[i], obstacles[j]), remembering the pair
\* as it was before the call
PairCollide(i, j) ==
    /\ pc = "idle" /\ events < MaxEvents
    /\ Commit([HandleObstacleCollision(Engine, i, j)
                  EXCEPT !.events = @ + 1,
                         !.observed.before = <<obstacles[i], obstacles[j]>>])
    /\ UNCHANGED <<clock, keys, touchX, touchY, lastTime, accumulator, pc,
                   staleLoops, staleListeners, owed, updatesRun, frames,
                   restarts>>

PairNext ==
    \/ PairCollide(1, 2)
    \/ PairCollide(2, 1)

SpecPair == PairInit /\ [][PairNext]_vars

\* the pair a direct call started from met the conditions of a resolution:
\* overlapping, distinct centres, approaching
WasResolved ==
    /\ observed.before # << >>
    /\ DistLT(observed.before[2].x - observed.before[1].x,
              observed.before[2].y - observed.before[1].y,
              observed.before[1].size + observed.before[2].size)
    /\ <<observed.before[1].x, observed.before[1].y>> #
       <<observed.before[2].x, observed.before[2].y>>
    /\ RelativeDot(observed.before[1], observed.before[2]) < 0

\* the obstacle that has the identity id
ObstacleWith(id) == CHOOSE o \in {obstacles[k] : k \in 1..Len(obstacles)} : o.id = id

\* the vector (ax, ay) is parallel to (dx, dy), up to the rounding of its
\* two components to whole units
AlongNormal(ax, ay, dx, dy) == 2 * Abs(ax * dy - ay * dx) <= Abs(dx) + Abs(dy)

\* C12: a call of handleObstacleCollision leaves the sum of the two
\* velocities unchanged: what one obstacle loses the other gains, on each
\* axis; on a resolved pair the change is not zero and lies along the line
\* through the two centres.
C12_ImpulseOpposite ==
    observed.before # << >> =>
       /\ ObstacleWith(1).speedX + ObstacleWith(2).speedX =
            observed.before[1].speedX + observed.before[2].speedX
       /\ ObstacleWith(1).speedY + ObstacleWith(2).speedY =
            observed.before[1].speedY + observed.before[2].speedY
       /\ WasResolved =>
            /\ \/ ObstacleWith(observed.before[1].id).speedX # observed.before[1].speedX
               \/ ObstacleWith(observed.before[1].id).speedY # observed.before[1].speedY
            /\ AlongNormal(ObstacleWith(observed.before[1].id).speedX
                              - observed.before[1].speedX,
                           ObstacleWith(observed.before[1].id).speedY
                              - observed.before[1].speedY,
                           observed.before[2].x - observed.before[1].x,
                           observed.before[2].y - observed.before[1].y)

\* an overlapping, approaching pair has been resolved and its velocities changed
C12_Witness ==
    /\ WasResolved
    /\ ObstacleWith(observed.before[1].id).speedX # observed.before[1].speedX

\* ----------------------------------------- the reducer effect on its own
\* superPowers.star_reducer.effect applied again and again to one obstacle
ReducerStarts == {1100, 1500, 2000, 3000, 4000, 5000, 6000, 7000, 8000, 9000}

ReducerInit ==
    \E size \in ReducerStarts :
      Fixture(<<NewObstacle(1, <<400 * Scale, 300 * Scale>>, size, "triangle",
                            1000, 3000, 100)>>)

ReducerApply ==
    /\ pc = "idle"
    /\ Commit([Engine EXCEPT !.obstacles[1].size = ReducerEffect(@),
                             !.observed.before = <<obstacles[1]>>])
    /\ UNCHANGED <<clock, keys, touchX, touchY, lastTime, accumulator, pc,
                   staleLoops, staleListeners, owed, updatesRun, frames,
                   restarts>>

ReducerNext == ReducerApply

SpecReducer == ReducerInit /\ [][ReducerNext]_vars

C14_SeparatedToContact ==
    WasResolved =>
       /\ ~DistLT(ObstacleWith(2).x - ObstacleWith(1).x,
                  ObstacleWith(2).y - ObstacleWith(1).y,
                  observed.before[1].size + observed.before[2].size - SepTol)
       /\ ~DistGT(ObstacleWith(2).x - ObstacleWith(1).x,
                  ObstacleWith(2).y - ObstacleWith(1).y,
                  observed.before[1].size + observed.before[2].size + SepTol)

\* a pair that overlapped by more than the allowance has been moved apart
C14_Witness ==
    /\ WasResolved
    /\ DistLT(observed.before[2].x - observed.before[1].x,
              observed.before[2].y - observed.before[1].y,
              observed.before[1].size + observed.before[2].size - 1000)
    /\ ObstacleWith(1).x # 400 * Scale

\* --------------------------------- calculateSizeBasedSpeed on its own
\* two obstacles of whole-pixel sizes s1 < s2 in [30, 90]; the step stores
\* each obstacle's size-based speed in its speedX
SpeedSizes == {s * Scale : s \in 30..90}

SpeedInit ==
    \E s1 \in SpeedSizes, s2 \in SpeedSizes :
      /\ s1 < s2
      /\ Fixture(<<NewObstacle(1, <<200 * Scale, 300 * Scale>>, s1, "triangle",
                               1000, 3000, 100),
                   NewObstacle(2, <<600 * Scale, 300 * Scale>>, s2, "triangle",
                               1000, 3000, 100)>>)

SpeedApply ==
    /\ pc = "idle" /\ observed.before = << >>
    /\ Commit([Engine EXCEPT
                 !.obstacles[1].speedX = CalculateSizeBasedSpeed(obstacles[1].size),
                 !.obstacles[2].speedX = CalculateSizeBasedSpeed(obstacles[2].size),
                 !.observed.before = obstacles])
    /\ UNCHANGED <<clock, keys, touchX, touchY, lastTime, accumulator, pc,
                   staleLoops, staleListeners, owed, updatesRun, frames,
                   restarts>>

SpeedNext == SpeedApply

SpecSpeed == SpeedInit /\ [][SpeedNext]_vars

\* C15: for sizes s1 < s2 in [30, 90] the speed of s1 is strictly greater than
\* the speed of s2; the speed of size 30 is 2.0 and the speed of size 90 is 0.5.
C15_SpeedDecreasing ==
    observed.before # << >> =>
       /\ obstacles[1].speedX > obstacles[2].speedX
       /\ obstacles[1].size = 30 * Scale => obstacles[1].speedX = 2 * Scale
       /\ obstacles[2].size = 90 * Scale => obstacles[2].speedX = Scale \div 2

\* the speeds of the two ends of the range have been computed
C15_Witness ==
    /\ observed.before # << >>
    /\ obstacles[1].size = 30 * Scale /\ obstacles[1].speedX = 2 * Scale
    /\ obstacles[2].size = 90 * Scale /\ obstacles[2].speedX = Scale \div 2

\* ------------------------------------------------ one pursuit on its own
\* one obstacle with chaseAccuracy 1.0 that never goes blind, 200 pixels from
\* the player, who stays at the spawn point; the obstacle is small enough
\* never to touch a wall; a step is the obstacle's own part of
\* updateObstacles, with no collision
ChaseStarts == {<<250 * Scale, 300 * Scale>>, <<170 * Scale, 460 * Scale>>,
                <<170 * Scale, 140 * Scale>>, <<210 * Scale, 420 * Scale>>,
                <<210 * Scale, 180 * Scale>>}
ChaseSizes == {30 * Scale, 40 * Scale, 45 * Scale}

ChaseInit ==
    \E pos \in ChaseStarts, size \in ChaseSizes :
      Fixture(<<NewObstacle(1, pos, size, "triangle", 1000, 3000, 100)>>)

ChaseTick ==
    /\ pc = "idle" /\ frames < MaxChaseTicks
    /\ Commit([Engine EXCEPT
                 !.obstacles[1] = MoveObstacle(@, player, FALSE, NoTick),
                 !.observed.before = <<obstacles[1]>>])
    /\ frames' = frames + 1
    /\ UNCHANGED <<clock, keys, touchX, touchY, lastTime, accumulator, pc,
                   staleLoops, staleListeners, owed, updatesRun, restarts>>

ChaseNext == ChaseTick

SpecChase == ChaseInit /\ [][ChaseNext]_vars

DistSq(o, p) == (p.x - o.x) * (p.x - o.x) + (p.y - o.y) * (p.y - o.y)

\* half the length of one pursuit step of the obstacle, after friction
HalfStep(o) == (RDiv(CalculateSizeBasedSpeed(o.size) * 99, 100) + 1) \div 2

ChaseMoved ==
    /\ Len(observed.before) = 1 /\ Len(obstacles) = 1
    /\ obstacles[1].x - obstacles[1].size > 0
    /\ obstacles[1].y - obstacles[1].size > 0
    /\ obstacles[1].x + obstacles[1].size < canvasWidth
    /\ obstacles[1].y + obstacles[1].size < canvasHeight

\* C16 as stated: after every tick of the pursuit the obstacle is strictly
\* nearer to the player than before the tick
C16_AlwaysNearer ==
    ChaseMoved => DistSq(obstacles[1], player) < DistSq(observed.before[1], player)

\* C16, amended: a tick that starts more than half a step away from the
\* player leaves the obstacle strictly nearer to the player
C16_NearerOutsideHalfStep ==
    (ChaseMoved /\ DistGT(player.x - observed.before[1].x,
                          player.y - observed.before[1].y,
                          HalfStep(observed.before[1]) + 1))
      => DistSq(obstacles[1], player) < DistSq(observed.before[1], player)

C16_Witness ==
    /\ ChaseMoved
    /\ DistGT(player.x - observed.before[1].x, player.y - observed.before[1].y,
              HalfStep(observed.before[1]) + 1)
    /\ DistLT(player.x - obstacles[1].x, player.y - obstacles[1].y, 100 * Scale)
    /\ DistSq(obstacles[1], player) < DistSq(observed.before[1], player)

\* C17: draw() changes neither the player, the obstacles, the power state nor
\* the level / gameOver / success flags, and it runs only when every update
\* owed by the same callback has been run.
C17_DrawOnlyReads ==
    [][DrawStep => /\ UNCHANGED <<player, obstacles, playerPower, level,
                                  gameOver, success>>
                   /\ updatesRun = owed
                   /\ ~LoopContinues(accumulator)]_vars

\* a callback has run its updates and then drawn the game-over display of a
\* collision of this game
C17_Witness ==
    /\ pc = "idle" /\ frames > 0 /\ owed > 0 /\ updatesRun = owed
    /\ Len(observed.hits) > 0
    /\ gameOverDisplay.visible /\ gameOverDisplay.alpha > 0

C19_StolenShapeHasNoPower ==
    \A k \in 1..Len(observed.stolen) : ~HasSuperPower(observed.stolen[k])

\* C20: no collision turns into a game over while the player's power is
\* active, and the effect of the active power is never applied to an obstacle
\* that carries a power.
C20_PowerShieldsAndSparesPowers ==
    /\ \A k \in 1..Len(observed.hits) : ~observed.hits[k].active
    /\ ~observed.effectOnPower

\* ------------------------------------ overlaps inside the protection radius
\* the player stands on the spawn point, 50 pixels from the entrance
\* midpoint; two obstacles lie on or near the player; a power may be
\* activated; a step is the part of updateObstacles that follows the
\* obstacle-obstacle pass for one obstacle (lines 476-486)
OverlapPoints == {<<60 * Scale, 300 * Scale>>, <<50 * Scale, 330 * Scale>>,
                  <<300 * Scale, 300 * Scale>>}
OverlapShapes == {"triangle", "star_reducer"}

OverlapInit ==
    \E p1 \in OverlapPoints, p2 \in OverlapPoints,
       s1 \in OverlapShapes, s2 \in OverlapShapes :
      Fixture(<<NewObstacle(1, p1, initialSize, s1, 1000, 3000, 100),
                NewObstacle(2, p2, 30 * Scale, s2, 1000, 3000, 100)>>)

OverlapStep(i) ==
    /\ pc = "idle" /\ frames < MaxFrames /\ i <= Len(obstacles)
    /\ \E ss \in Redraws, sh \in Redraws :
         Commit(ApplyPower(Collide(Engine, i, [NoTick EXCEPT !.stealShape = ss,
                                                          !.shiftShape = sh]),
                           i, [NoTick EXCEPT !.stealShape = ss, !.shiftShape = sh]))
    /\ frames' = frames + 1
    /\ UNCHANGED <<clock, keys, touchX, touchY, lastTime, accumulator, pc,
                   staleLoops, staleListeners, owed, updatesRun, restarts>>

\* one whole updateObstacles, with at most one successful blindness roll
OverlapTick ==
    /\ pc = "idle" /\ updatesRun < MaxOverlapTicks
    /\ \E bw \in 0..Len(obstacles) :
         Commit(UpdateObstacles(Engine, [NoTick EXCEPT !.blindWho = bw]))
    /\ updatesRun' = updatesRun + 1
    /\ UNCHANGED <<clock, keys, touchX, touchY, lastTime, accumulator, pc,
                   staleLoops, staleListeners, owed, frames, restarts>>

OverlapNext ==
    \/ \E powerType \in DOMAIN superPowers : PowerActivate(powerType)
    \/ \E i \in 1..2 : OverlapStep(i)
    \/ OverlapTick

SpecOverlap == OverlapInit /\ [][OverlapNext]_vars

\* C21: with the player inside the protection radius, the collision part of
\* an obstacle's update changes neither the player, nor the power state, nor
\* any obstacle, whether or not a power is active.
C21_NoConsequenceInside ==
    [][(StrictlyInside(player) /\ frames' # frames)
          => UNCHANGED <<player, playerPower, obstacles>>]_vars

\* C22: a tick in which an overlap outside the protection radius, with no
\* power active, turns into a game over ends with the player on the spawn
\* point with an empty trail and no power, and with the game-over display
\* visible at alpha 0, target alpha 1, started at the current clock; the
\* overlap was outside the radius with no power active.
C22_HitResetsAndShows ==
    [][Len(observed'.hits) > Len(observed.hits) =>
         /\ player'.x = spawnX /\ player'.y = spawnY
         /\ player'.trail = << >>
         /\ ~playerPower'.active /\ ~playerPower'.hasPower
         /\ playerPower'.type = "null"
         /\ gameOverDisplay' = [visible |-> TRUE, targetAlpha |-> 100,
                                alpha |-> 0, startTime |-> DateNow]
         /\ ~StrictlyInside(observed'.hits[Len(observed'.hits)])
         /\ ~observed'.hits[Len(observed'.hits)].active]_vars

\* the tick that has just run turned an overlap far from the spawn point
\* into a game over
C22_Witness ==
    /\ pc = "loop" /\ Len(observed.hits) > 0
    /\ observed.hits[Len(observed.hits)].x > 200 * Scale
    /\ player.x = spawnX /\ player.y = spawnY /\ player.trail = << >>
    /\ gameOverDisplay.visible /\ gameOverDisplay.alpha = 0
    /\ gameOverDisplay.startTime = DateNow

\* C23: in every reachable state a call of resetPlayer() leaves the level
\* number and the obstacle sequence, every field of every obstacle included,
\* as they are.
C23_ResetPlayerKeepsLevel ==
    /\ ResetPlayer(Engine).level = level
    /\ ResetPlayer(Engine).obstacles = obstacles

\* a collision has reset the player of a level with two obstacles, and a
\* further resetPlayer() here would move the player again
C23_Witness ==
    /\ Len(observed.hits) > 0 /\ Len(obstacles) >= 2 /\ level >= 2
    /\ ResetPlayer(Engine).player # player

\* C24: the stuck timer counts, in steps of 16, the ticks since the last
\* reset in which the player ended its move at x < 100 having moved less
\* than positionChangeThreshold; the tick that brings it to stuckThreshold
\* (the 125th) runs resetLevel and leaves the timer at 0; a tick in which
\* the player moved at least that far, or ended its move at x >= 100, or in
\* which a collision or a level change reset the player, leaves the timer
\* at 0.
C24_StuckForcesLevelReset ==
    /\ [](stuckTimer % stuckStep = 0 /\ 0 <= stuckTimer /\ stuckTimer < stuckThreshold)
    /\ [][(updatesRun' = updatesRun + 1 /\ ~success) =>
            LET moved == MovePlayer(player)
                still == /\ moved.x < nearEntranceX
                         /\ DistLT(moved.x - player.x, moved.y - player.y,
                                   positionChangeThreshold)
                reset == \/ Len(observed'.hits) > Len(observed.hits)
                         \/ level' # level
            IN IF still /\ stuckTimer + stuckStep >= stuckThreshold
               THEN /\ stuckTimer' = 0
                    /\ observed'.resets = observed.resets + 1
                    /\ player'.x = spawnX /\ player'.y = spawnY
               ELSE /\ observed'.resets = observed.resets
                    /\ stuckTimer' = IF still /\ ~reset
                                     THEN stuckTimer + stuckStep ELSE 0]_vars

\* the 125th tick of a player standing still at the spawn point has forced a
\* level reset, with no restart asked for from outside
C24_Witness ==
    /\ observed.resets = 1 /\ events = 0 /\ restarts = 0
    /\ stuckTimer = 0 /\ pc = "loop" /\ frames = 4 /\ updatesRun = 4
    /\ player.x = spawnX

\* C25: any two consecutive shape changes made by the shape-shifter effect
\* are at least cooldownTime apart on the clock; in particular no two fall
\* in the same tick.
C25_ShiftCooldown ==
    \A k \in 1..(Len(observed.shifts) - 1) :
        observed.shifts[k + 1] - observed.shifts[k] >= cooldownTime

\* the effect has changed a shape twice, and the player still overlaps an
\* obstacle with the shape shifter active
C25_Witness ==
    /\ Len(observed.shifts) >= 2
    /\ playerPower.active /\ playerPower.type = "star"
    /\ \E i \in 1..Len(obstacles) : CheckCollision(player, obstacles[i])

\* C26: an obstacle that the eliminator effect was applied to is not in the
\* active set, in the tick of the overlap and ever after; a tick without a
\* level change or level reset keeps every obstacle it did not eliminate, in
\* the same order.
C26_EliminatedForGood ==
    /\ [](\A i \in 1..Len(obstacles) : obstacles[i].id \notin observed.eliminated)
    /\ [][(updatesRun' = updatesRun + 1 /\ level' = level
             /\ observed'.resets = observed.resets) =>
            [k \in 1..Len(obstacles') |-> obstacles'[k].id] =
               SelectSeq([k \in 1..Len(obstacles) |-> obstacles[k].id],
                         LAMBDA id : id \notin observed'.eliminated)]_vars

\* the eliminator has removed the obstacle it was stolen from and then a
\* second obstacle that reached the player; none is left
C26_Witness ==
    /\ Cardinality(observed.eliminated) = 2 /\ obstacles = << >>
    /\ playerPower.active /\ playerPower.type = "star_eliminator"

\* C27: a tick that advances the level drops the obstacles that carried a
\* power, keeps the others in their order, and adds one new obstacle that
\* carries no power and at most one new power obstacle; after it at most
\* one obstacle of the set carries a power.
C27_OnePowerAfterLevel ==
    [][level' = level + 1 =>
         /\ SelectSeq(obstacles', LAMBDA o : o.id < nextId) # obstacles'
         /\ [k \in 1..Len(SelectSeq(obstacles', LAMBDA o : o.id < nextId)) |->
                SelectSeq(obstacles', LAMBDA o : o.id < nextId)[k].id]
              = [k \in 1..Len(FilterRegular(obstacles)) |->
                    FilterRegular(obstacles)[k].id]
         /\ \A i \in 1..Len(obstacles') :
               obstacles'[i].id = nextId => ~HasSuperPower(obstacles'[i].shape)
         /\ Cardinality({i \in 1..Len(obstacles') :
                            HasSuperPower(obstacles'[i].shape)}) <= 1]_vars

\* C28: no pair of obstacles is resolved while one of the two has still to
\* make its move of the tick, and no pair is resolved twice in one tick.
C28_PairsOnStableState == ~observed.earlyPair /\ ~observed.pairTwice

\* C29: for an obstacle that starts a tick within entranceProtectionRadius of
\* the entrance midpoint, the velocity its position is integrated with is
\* the velocity it would have had without the repulsion, plus the repulsion
\* nudge.
C29_RepulsionInVelocity ==
    \A i \in 1..Len(obstacles) :
        Repel(obstacles[i]) # obstacles[i] =>
            /\ Heading(Repel(obstacles[i]), player).speedX =
                  Heading(obstacles[i], player).speedX
                    + (Repel(obstacles[i]).speedX - obstacles[i].speedX)
            /\ Heading(Repel(obstacles[i]), player).speedY =
                  Heading(obstacles[i], player).speedY
                    + (Repel(obstacles[i]).speedY - obstacles[i].speedY)

\* C30: the base speed derived from the size of any obstacle of the active
\* set lies between 0.5 and 2.0 pixels per tick.
C30_SpeedInRange ==
    \A i \in 1..Len(obstacles) :
        /\ CalculateSizeBasedSpeed(obstacles[i].size) >= Scale \div 2
        /\ CalculateSizeBasedSpeed(obstacles[i].size) <= 2 * Scale

\* C31: a blind obstacle's timer is a positive multiple of 16 below its
\* duration, the duration lies in the obstacle's range, and every tick that
\* keeps the obstacle adds 16 to the timer and ends the blindness exactly
\* when the timer reaches the duration; the entering tick counts as the
\* first.  The obstacle is therefore blind at the end of ticks
\* 1 .. ceil(D/16) - 1 and pursuing again at the end of tick ceil(D/16).
C31_BlindForDuration ==
    /\ [](\A i \in 1..Len(obstacles) :
            obstacles[i].isBlind =>
               /\ obstacles[i].blindTimer % 16 = 0
               /\ obstacles[i].blindTimer >= 16
               /\ obstacles[i].blindTimer < obstacles[i].blindDuration
               /\ obstacles[i].blindDuration >= obstacles[i].blindMin
               /\ obstacles[i].blindDuration <= obstacles[i].blindMax)
    /\ [][(updatesRun' = updatesRun + 1 /\ ~success) =>
            \A i \in 1..Len(obstacles), j \in 1..Len(obstacles') :
               (obstacles'[j].id = obstacles[i].id) =>
                  IF obstacles[i].isBlind
                  THEN /\ obstacles'[j].blindTimer = obstacles[i].blindTimer + 16
                       /\ obstacles'[j].isBlind =
                            (obstacles[i].blindTimer + 16 < obstacles[i].blindDuration)
                  ELSE obstacles'[j].isBlind => obstacles'[j].blindTimer = 16]_vars

\* C38: no obstacle that is in the active set at the end of a tick was
\* passed over by the tick's update loop.
C38_EveryObstacleUpdated == ~observed.skipped

\* C32: the velocity that the heading step gives a blind obstacle has a
\* magnitude of at most half the obstacle's size-derived base speed.
C32_BlindSpeedMagnitude ==
    \A i \in 1..Len(obstacles) :
        BlindStep(obstacles[i]).isBlind =>
            Heading(Repel(BlindStep(obstacles[i])), player).speedX
              * Heading(Repel(BlindStep(obstacles[i])), player).speedX
            + Heading(Repel(BlindStep(obstacles[i])), player).speedY
              * Heading(Repel(BlindStep(obstacles[i])), player).speedY
            <= (CalculateSizeBasedSpeed(obstacles[i].size) \div 2)
               * (CalculateSizeBasedSpeed(obstacles[i].size) \div 2)

\* C33: the displacement that the held keys and the touch point give the
\* player in one tick, before the clamp to the canvas, is at most speed long.
C33_IntentAtMostSpeed ==
    (TouchMove(KeyMove(player)).x - player.x)
      * (TouchMove(KeyMove(player)).x - player.x)
    + (TouchMove(KeyMove(player)).y - player.y)
      * (TouchMove(KeyMove(player)).y - player.y)
    <= playerSpeed * playerSpeed

\* C34: the trail holds at most 10 positions; an empty trail belongs to a
\* player on the spawn point (a reset, or no update yet), and otherwise the
\* first entry is the player's position; a tick that ends without a reset
\* has put the new position in front of the old trail and dropped what lay
\* beyond the tenth entry.
C34_TrailNewestFirst ==
    /\ [](/\ Len(player.trail) <= trailCapacity
          /\ player.trail = << >> => player.x = spawnX /\ player.y = spawnY
          /\ player.trail # << >> => player.trail[1] = <<player.x, player.y>>)
    /\ [][(updatesRun' = updatesRun + 1 /\ ~success /\ player'.trail # << >>) =>
            player'.trail =
               SubSeq(<<<<player'.x, player'.y>>>> \o player.trail, 1,
                      IF Len(player.trail) + 1 > trailCapacity
                      THEN trailCapacity ELSE Len(player.trail) + 1)]_vars

\* a moving player's trail is full: ten different positions, newest first
C34_Witness ==
    /\ Len(player.trail) = trailCapacity
    /\ player.trail[1] = <<player.x, player.y>>
    /\ player.trail[1] # player.trail[2]
    /\ player.trail[trailCapacity][1] < player.trail[1][1]

\* C35: active, hasPower and "type is not null" agree in every state; an
\* activation sets endTime to the clock plus the duration of the new type,
\* and type and endTime stay as they are for as long as that power is active.
C35_PowerRecordCoherent ==
    /\ [](/\ playerPower.active = playerPower.hasPower
          /\ playerPower.active = (playerPower.type # "null")
          /\ playerPower.active => playerPower.type \in DOMAIN superPowers)
    /\ [][playerPower'.active =>
            IF playerPower'.timer # playerPower.timer
            THEN playerPower'.endTime = DateNow + superPowers[playerPower'.type]
            ELSE /\ playerPower.active
                 /\ playerPower'.endTime = playerPower.endTime
                 /\ playerPower'.type = playerPower.type]_vars

\* a stolen power is still active one render callback after its activation
C35_Witness ==
    /\ playerPower.active /\ playerPower.hasPower
    /\ playerPower.type = "star_reducer"
    /\ Len(observed.stolen) > 0
    /\ playerPower.endTime < DateNow + superPowers[playerPower.type]
    /\ DateNow < playerPower.endTime

\* C36: in every state between two ticks, callbacks or commands gameOver is
\* false, the player is not infected and infectionProgress is 0.
C36_FlagsNeverObserved ==
    ~gameOver /\ ~player.infected /\ player.infectionProgress = 0

\* a collision has been turned into a game over and its display has been
\* drawn, with both flags false again
C36_Witness ==
    /\ Len(observed.hits) > 0 /\ pc = "idle"
    /\ gameOverDisplay.visible /\ gameOverDisplay.alpha > 0
    /\ ~gameOver /\ ~player.infected

\* C37: one tick processes at most one game-over collision: no step of the
\* program adds more than one entry to the record of game-over hits.
C37_OneGameOverPerTick ==
    [][Len(observed'.hits) <= Len(observed.hits) + 1]_vars

\* after a game-over hit, an obstacle updated later in the same tick overlapped
\* the player at the spawn point and was turned away by the protection zone
C37_Witness ==
    /\ observed.shieldedAfterHit
    /\ Len(observed.hits) > 0
    /\ player.x = spawnX /\ player.y = spawnY

\* ------------------------------------------- an engine with success set
\* updatePlayer, lines 352-356, sets success and hands over to the caller's
\* onSuccess; until a command of the collaborator resets the flag the loop
\* keeps calling update() with success true.  The engine starts in that
\* condition, the player on the exit, with and without live particles.
Latched(d, parts) ==
    [Constructed(d, 1) EXCEPT !.success = TRUE,
                              !.player.x = exit.x - playerRadius \div 2,
                              !.particles = parts]

LatchedInit ==
    /\ clock = 0 /\ intervals = {} /\ pollDue = 0
    /\ staleLoops = 0 /\ staleListeners = 0
    /\ frames = 0 /\ events = 0 /\ restarts = 0
    /\ keys = {} /\ touchX = 0 /\ touchY = 0
    /\ lastTime = 0 /\ accumulator = 0 /\ pc = "idle"
    /\ owed = 0 /\ updatesRun = 0
    /\ \E d \in InitDraws, parts \in {<< >>, <<particleLife>>} :
         /\ level = Latched(d, parts).level
         /\ gameOver = Latched(d, parts).gameOver
         /\ success = Latched(d, parts).success
         /\ player = Latched(d, parts).player
         /\ obstacles = Latched(d, parts).obstacles
         /\ playerPower = Latched(d, parts).playerPower
         /\ particles = Latched(d, parts).particles
         /\ gameOverDisplay = Latched(d, parts).gameOverDisplay
         /\ stuckTimer = Latched(d, parts).stuckTimer
         /\ lastPlayerPosition = Latched(d, parts).lastPlayerPosition
         /\ shapeShifterCooldown = Latched(d, parts).shapeShifterCooldown
         /\ calls = Latched(d, parts).calls
         /\ nextId = Latched(d, parts).nextId
         /\ observed = Latched(d, parts).observed

\* the commands that clear success, called directly by the collaborator
LatchedCommand(c) ==
    /\ pc = "idle" /\ events < MaxEvents /\ restarts < MaxRestarts
    /\ \E d \in RestartDraws :
         Commit([CASE c = "nextLevel" -> NextLevel(Engine, d)
                   [] c = "resetLevel" -> ResetLevel(Engine, d)
                   [] c = "resetPlayer" -> ResetPlayer(Engine)
                    EXCEPT !.events = @ + 1])
    /\ restarts' = restarts + 1
    /\ UNCHANGED <<clock, keys, touchX, touchY, lastTime, accumulator, pc,
                   staleLoops, staleListeners, owed, updatesRun, frames>>

LatchedNext ==
    \/ \E dt \in FrameDeltas : GameLoopStart(dt)
    \/ UpdateStep
    \/ DrawStep
    \/ \E k \in KeySet : KeyDown(k)
    \/ \E k \in KeySet : KeyUp(k)
    \/ \E pt \in TouchPoints : Touch(pt)
    \/ \E powerType \in DOMAIN superPowers : PowerActivate(powerType)
    \/ PowerTimerPoll
    \/ \E c \in {"nextLevel", "resetLevel", "resetPlayer"} : LatchedCommand(c)

SpecLatched == LatchedInit /\ [][LatchedNext]_vars

\* C39: a call of update() that starts with success true changes neither the
\* player, the obstacles, the particles, the stuck timer, the level nor the
\* power state.
C39_SuccessFreezesUpdate ==
    [][(updatesRun' = updatesRun + 1 /\ success) =>
           UNCHANGED <<player, obstacles, particles, stuckTimer, level,
                       playerPower, success, gameOver, lastPlayerPosition,
                       shapeShifterCooldown>>]_vars

\* update() has run with success true, keys held and an obstacle, live
\* particles and an active power present: all of it is as it was
C39_Witness ==
    /\ success /\ updatesRun > 1 /\ pc = "loop"
    /\ keys # {} /\ obstacles # << >> /\ particles # << >>
    /\ playerPower.active

\* C40: in the tick of a power steal, if the player still overlaps the donor
\* under its redrawn shape, the stolen power's effect reaches the donor in that
\* tick: an eliminator removes it, a reducer shrinks it, and the shape shifter
\* changes it unless its cooldown is running.
C40_StolenPowerHitsDonor ==
    [][(Len(observed'.stolen) = Len(observed.stolen) + 1
        /\ observed'.donor.overlaps) =>
          CASE observed'.donor.type = "star_eliminator" ->
                 \A k \in 1..Len(obstacles') :
                     obstacles'[k].id # observed'.donor.id
            [] observed'.donor.type = "star_reducer" ->
                 \E k \in 1..Len(obstacles') :
                     /\ obstacles'[k].id = observed'.donor.id
                     /\ obstacles'[k].size = ReducerEffect(observed'.donor.size)
            [] observed'.donor.type = "star" ->
                 (\/ ~shapeShifterCooldown.active
                  \/ DateNow - shapeShifterCooldown.lastChange >= cooldownTime)
                     => observed'.shifts = Append(observed.shifts, DateNow)]_vars

\* an eliminator has been stolen from an obstacle the player still overlapped
\* under its new shape, and that obstacle is gone
C40_Witness ==
    /\ observed.donor.type = "star_eliminator"
    /\ observed.donor.overlaps
    /\ observed.donor.id \in observed.eliminated
    /\ \A k \in 1..Len(obstacles) : obstacles[k].id # observed.donor.id

====
